---- MODULE Spec2Model ----
(***************************************************************************)
(* Model of the vastai operator scripts:                                   *)
(*   python_scripts/monitor_instance.py      (VastInstanceMonitor, main)   *)
(*   python_scripts/components/comfyui_api.py (ComfyUIController, main)    *)
(*   SCRIPTS/python_scripts/workflows/analyze_workflow_generic.py          *)
(*                                                                         *)
(* Text is modelled as a sequence of tokens.  A token is an indivisible    *)
(* piece of text; the tokens are chosen so that every substring, prefix,   *)
(* split and replace the code performs falls on token boundaries.          *)
(*   NL  is the newline character, BSN is the two characters backslash, n  *)
(*   (what the Python literal "\\n" denotes).                              *)
(***************************************************************************)
EXTENDS Integers, Sequences, FiniteSets, TLC

\* ------------------------------------------------------------------ bounds
MaxOutLen == 3
MaxWaitMinutes == 1
MaxInputs == 2
MaxValues == 3
MaxNodes == 2
MaxHistory == 2

\* ------------------------------------------------------------------ text
NL == "<NL>"
BSN == "\\n"

SeqsUpTo(S, n) == UNION {[1..k -> S] : k \in 0..n}

\* str.lower(), token by token
LowerTok(t) ==
  CASE t = "Connection refused" -> "connection refused"
    [] t = "No route to host"   -> "no route to host"
    [] t = "Permission denied"  -> "permission denied"
    [] OTHER -> t

Lower(s) == [i \in 1..Len(s) |-> LowerTok(s[i])]

\* pattern in s, for a pattern that is one token
HasSub(s, p) == \E i \in 1..Len(s) : s[i] = p

\* 'STATUS:' in s : the tokens whose text contains STATUS:
HasStatusMarker(s) == \E i \in 1..Len(s) : s[i] \in {"STATUS: ", "STATUS:"}

IsSpace(t) == t \in {NL, " "}

RECURSIVE LStrip(_)
LStrip(s) == IF s # <<>> /\ IsSpace(Head(s)) THEN LStrip(Tail(s)) ELSE s

RECURSIVE RStrip(_)
RStrip(s) ==
  IF s # <<>> /\ IsSpace(s[Len(s)]) THEN RStrip(SubSeq(s, 1, Len(s) - 1)) ELSE s

\* str.strip()
Strip(s) == RStrip(LStrip(s))

\* str.split('\n') : the list of lines (always at least one)
RECURSIVE SplitNL(_, _, _)
SplitNL(s, cur, acc) ==
  IF s = <<>> THEN Append(acc, cur)
  ELSE IF Head(s) = NL THEN SplitNL(Tail(s), <<>>, Append(acc, cur))
  ELSE SplitNL(Tail(s), Append(cur, Head(s)), acc)

Split(s) == SplitNL(s, <<>>, <<>>)

\* str.replace(tok, '') for a pattern that is one token
Remove(s, tok) == SelectSeq(s, LAMBDA t : t # tok)

\* line.startswith('STATUS:') / line.startswith('DETAILS:')
StartsWithStatus(line) == line # <<>> /\ line[1] \in {"STATUS: ", "STATUS:"}
StartsWithDetails(line) == line # <<>> /\ line[1] \in {"DETAILS: ", "DETAILS:"}

\* ------------------------------------------------- execute_remote_script
\* what ssh writes to stderr, and what an exception's message can hold
StderrTokens ==
  {"Connection refused", "No route to host", "Permission denied", "publickey",
   "timeout", "timed out", "banner exchange", "x", NL, "STATUS: ", "ERROR"}

\* what the remote status script (or anything else on stdout) can print
StdoutTokens ==
  {"STATUS: ", "STATUS:", "DETAILS: ", "READY", "ERROR", "INITIALIZING", NL, "x"}

\* one run of the ssh/expect subprocess: how it ended and the text it left
SshOutcomes ==
  [kind : {"exit0"}, text : SeqsUpTo(StdoutTokens, MaxOutLen)]
    \cup [kind : {"nonzero", "Exception"}, text : SeqsUpTo(StderrTokens, MaxOutLen)]
    \cup [kind : {"TimeoutExpired", "FileNotFoundError"}, text : {<<>>}]

\* faulty variant: the patterns are matched against stderr as written
ClassifyStderrNoLower(stderr) ==
  IF HasSub(stderr, "connection refused") \/ HasSub(stderr, "no route to host")
    THEN "not_ready"
  ELSE IF HasSub(stderr, "permission denied") \/ HasSub(stderr, "publickey")
    THEN "auth"
  ELSE IF HasSub(stderr, "timeout") \/ HasSub(stderr, "timed out")
          \/ HasSub(stderr, "banner exchange")
    THEN "timeout"
  ELSE "generic"

\* the if/elif chain over the lower-cased stderr
ClassifyStderr(stderr) ==
  LET e == Lower(stderr) IN
  IF HasSub(e, "connection refused") \/ HasSub(e, "no route to host")
    THEN "not_ready"
  ELSE IF HasSub(e, "permission denied") \/ HasSub(e, "publickey")
    THEN "auth"
  ELSE IF HasSub(e, "timeout") \/ HasSub(e, "timed out") \/ HasSub(e, "banner exchange")
    THEN "timeout"
  ELSE "generic"

\* the string returned for a nonzero exit code
FailureString(stderr) ==
  LET c == ClassifyStderr(stderr) IN
  CASE c = "not_ready" ->
         <<"STATUS: ", "SSH_NOT_READY", BSN, "DETAILS: ", "SSH service not available">>
    [] c = "auth" ->
         <<"STATUS: ", "SSH_AUTH_ERROR", BSN, "DETAILS: ", "SSH key not authorized">>
    [] c = "timeout" ->
         <<"STATUS: ", "SSH_NOT_READY", BSN, "DETAILS: ", "Connection timeout">>
    [] OTHER ->
         <<"STATUS: ", "SSH_ERROR", BSN, "DETAILS: ">> \o stderr

\* the value execute_remote_script returns
ExecuteRemoteScript(keyExists, o) ==
  IF ~keyExists THEN <<"STATUS: ", "SSH_KEY_ERROR">>
  ELSE CASE o.kind = "exit0" -> Strip(o.text)
         [] o.kind = "nonzero" -> FailureString(o.text)
         [] o.kind = "TimeoutExpired" ->
              <<"STATUS: ", "SSH_NOT_READY", BSN, "DETAILS: ", "SSH connection timeout">>
         [] o.kind = "FileNotFoundError" ->
              <<"STATUS: ", "SSH_ERROR", BSN, "DETAILS: ", "SSH client not installed">>
         [] OTHER ->
              <<"STATUS: ", "SSH_ERROR", BSN, "DETAILS: ">> \o o.text

\* whether the temporary script file is still on disk when the call returns:
\* it is created after the key check and unlinked only on the path that
\* follows a returning subprocess.run
TmpFileLeft(keyExists, o) ==
  keyExists /\ o.kind \in {"TimeoutExpired", "FileNotFoundError", "Exception"}

\* ---------------------------------------------------- parse_status_output
\* the loop over the lines; only the status and details fields are kept
RECURSIVE ParseLines(_, _)
ParseLines(lines, sd) ==
  IF lines = <<>> THEN sd
  ELSE LET line == Head(lines) IN
       ParseLines(Tail(lines),
         IF StartsWithStatus(line)
           THEN [sd EXCEPT !.status = Remove(line, "STATUS: ")]
         ELSE IF StartsWithDetails(line)
           THEN [sd EXCEPT !.details = Remove(line, "DETAILS: ")]
         ELSE sd)

parse_status_output(output) ==
  ParseLines(Split(output), [status |-> <<"UNKNOWN">>, details |-> <<>>])

\* keys of print_status_report's emoji table
status_emoji ==
  {"READY", "STARTING_APP", "DOWNLOADING", "PROVISIONING", "INITIALIZING", "ERROR",
   "SSH_ERROR", "SSH_NOT_READY", "SSH_AUTH_ERROR", "CONNECTION_ERROR", "UNKNOWN"}

\* ------------------------------------------ map_widget_values_to_inputs
\* A widget value is tagged with its Python type; n is the number (0 for a
\* string), s the string ("" for a number).  bool is a subclass of int.
StrVal(x) == [kind |-> "str", s |-> x, n |-> 0]
IntVal(k) == [kind |-> "int", s |-> "", n |-> k]

\* isinstance(value, str) / isinstance(value, (int, float))
IsStr(v) == v.kind = "str"
IsNumber(v) == v.kind \in {"int", "float", "bool"}

\* faulty variant: no value is ever considered wrong: nothing is skipped
ValueNeverWrong(input_name, value) == FALSE

\* _value_seems_wrong_for_input (all_values and current_index are not read)
_value_seems_wrong_for_input(input_name, value) ==
  \/ input_name = "steps" /\ IsStr(value) /\ value.s \in {"randomize", "fixed"}
  \/ input_name = "start_at_step" /\ IsStr(value) /\ value.s \in {"beta", "euler", "simple"}
  \/ input_name = "sampler_name" /\ IsNumber(value)
  \/ input_name = "return_with_leftover_noise" /\ IsNumber(value) /\ value.n > 1

\* dict assignment d[k] = v
DictSet(d, k, v) == [x \in (DOMAIN d) \cup {k} |-> IF x = k THEN v ELSE d[x]]
EmptyDict == [x \in {} |-> 0]

\* faulty variant: linked inputs are taken for widget inputs too
WidgetInputsIgnoringLink(config) == SelectSeq(config, LAMBDA d : d.widget # <<>>)

\* the inputs with a widget and without a link, in declared order
WidgetInputs(config) ==
  SelectSeq(config, LAMBDA d : d.widget # <<>> /\ d.link = <<>>)

\* the branch for more values than widget inputs: the loop over the inputs,
\* widget_index counting from 0
RECURSIVE MapSkipping(_, _, _, _)
MapSkipping(widget_inputs, values, widget_index, acc) ==
  IF widget_inputs = <<>> THEN acc
  ELSE LET input_name == Head(widget_inputs).name IN
       IF widget_index < Len(values)
         THEN LET wrong == _value_seems_wrong_for_input(input_name,
                                                        values[widget_index + 1])
                  idx == IF wrong THEN widget_index + 1 ELSE widget_index
                  value == IF wrong /\ idx < Len(values) THEN values[idx + 1]
                           ELSE values[widget_index + 1]
              IN MapSkipping(Tail(widget_inputs), values, idx + 1,
                             DictSet(acc, input_name, value))
         ELSE MapSkipping(Tail(widget_inputs), values, widget_index, acc)

\* the 1:1 branch: enumerate(widget_inputs), i counting from 0
RECURSIVE MapByIndex(_, _, _, _)
MapByIndex(widget_inputs, values, i, acc) ==
  IF widget_inputs = <<>> THEN acc
  ELSE MapByIndex(Tail(widget_inputs), values, i + 1,
         IF i < Len(values)
           THEN DictSet(acc, Head(widget_inputs).name, values[i + 1])
           ELSE acc)

map_widget_values_to_inputs(values, config) ==
  LET widget_inputs == WidgetInputs(config) IN
  IF Len(values) > Len(widget_inputs)
    THEN MapSkipping(widget_inputs, values, 0, EmptyDict)
    ELSE MapByIndex(widget_inputs, values, 0, EmptyDict)

\* the inputs explored: a node's input names are distinct
InputNames == {"seed", "steps", "start_at_step", "sampler_name",
               "return_with_leftover_noise"}

\* per name: a widget input, a widget input fed by a link, a plain socket
InputDefsOf(nm) ==
  {[name |-> nm, widget |-> <<[name |-> nm]>>, link |-> <<>>],
   [name |-> nm, widget |-> <<[name |-> nm]>>, link |-> <<7>>],
   [name |-> nm, widget |-> <<>>, link |-> <<>>]}

InputDefs == UNION {InputDefsOf(nm) : nm \in InputNames}

DistinctNames(config) ==
  \A i, j \in 1..Len(config) : i # j => config[i].name # config[j].name

InputConfigs(n) == {c \in SeqsUpTo(InputDefs, n) : DistinctNames(c)}

WidgetValues == {StrVal("randomize"), StrVal("euler"), IntVal(20), IntVal(1)}

\* ------------------------------------------- analyze_workflow_generic.py
\* An optional value: None (missing key, or Python's None) or Some(v).
None == <<>>
Some(v) == <<v>>

\* Python dicts keep insertion order: a dict is a sequence of key/value
\* pairs with pairwise different keys.
OKeys(d) == {d[i].k : i \in 1..Len(d)}
OHas(d, key) == key \in OKeys(d)
OGet(d, key) == d[CHOOSE i \in 1..Len(d) : d[i].k = key].v
OSet(d, key, val) ==
  IF OHas(d, key)
    THEN [i \in 1..Len(d) |-> IF d[i].k = key THEN [k |-> key, v |-> val] ELSE d[i]]
    ELSE Append(d, [k |-> key, v |-> val])

\* str(n) for an integer n >= 0, as a sequence of characters
Digit(n) == <<"0", "1", "2", "3", "4", "5", "6", "7", "8", "9">>[n + 1]
RECURSIVE IntToStr(_)
IntToStr(n) == IF n < 10 THEN <<Digit(n)>> ELSE Append(IntToStr(n \div 10), Digit(n % 10))

\* str(x) / f"{x}" for an optional integer or an optional string
StrOfInt(o) == IF o = None THEN <<"N", "o", "n", "e">> ELSE IntToStr(o[1])
StrOfStr(o) == IF o = None THEN <<"N", "o", "n", "e">> ELSE o[1]

\* int(s): Some(n) for a string of decimal digits, None where int raises ValueError
IsDigit(c) == c \in {"0", "1", "2", "3", "4", "5", "6", "7", "8", "9"}
DigitVal(c) == CHOOSE n \in 0..9 : Digit(n) = c
RECURSIVE DigitsVal(_)
DigitsVal(s) ==
  IF s = <<>> THEN 0 ELSE 10 * DigitsVal(SubSeq(s, 1, Len(s) - 1)) + DigitVal(s[Len(s)])
ParseInt(s) ==
  IF s # <<>> /\ \A i \in 1..Len(s) : IsDigit(s[i]) THEN Some(DigitsVal(s)) ELSE None

\* s.replace(" ", "_")
SpacesToUnderscores(s) == [i \in 1..Len(s) |-> IF s[i] = " " THEN "_" ELSE s[i]]

\* node.get(key, []) for a list-valued key
ListOr(o) == IF o = None THEN <<>> ELSE o[1]

\* the loop over the node's inputs, building configurable_inputs
RECURSIVE InputWidgets(_, _)
InputWidgets(inputs, acc) ==
  IF inputs = <<>> THEN acc
  ELSE LET inp == Head(inputs) IN
       InputWidgets(Tail(inputs),
         IF inp.widget # None
           THEN OSet(acc, inp.widget[1].name, [type |-> inp.type, current_value |-> None])
           ELSE acc)

\* faulty variant: the widget values are dropped
ExtractWithoutValues(node) ==
  LET configurable_inputs == InputWidgets(ListOr(node.inputs), <<>>)
  IN IF configurable_inputs # <<>>
       THEN <<[k |-> "input_widgets", v |-> configurable_inputs]>> ELSE <<>>

extract_configurable_values(node) ==
  LET widgets_values == ListOr(node.widgets_values)
      c1 == IF widgets_values # <<>>
              THEN OSet(<<>>, "widgets_values", widgets_values) ELSE <<>>
      configurable_inputs == InputWidgets(ListOr(node.inputs), <<>>)
  IN IF configurable_inputs # <<>>
       THEN OSet(c1, "input_widgets", configurable_inputs) ELSE c1

\* the loop over the nodes, building cleaned["nodes"]
RECURSIVE CleanNodes(_, _)
CleanNodes(nodes, acc) ==
  IF nodes = <<>> THEN acc
  ELSE LET node == Head(nodes)
           node_id == StrOfInt(node.id)
           node_type == node.type
           node_title == IF node.title # None THEN node.title[1]
                         ELSE StrOfStr(node_type) \o <<"_">> \o node_id
           clean_node == [type |-> node_type, title |-> node_title,
                          configurable |-> extract_configurable_values(node)]
       IN CleanNodes(Tail(nodes),
            IF clean_node.configurable # <<>> THEN OSet(acc, node_id, clean_node) ELSE acc)

clean_workflow_for_config(workflow_data) ==
  [workflow_info |-> [id |-> workflow_data.id, name |-> <<>>,
                      description |-> "Auto-generated configuration template"],
   nodes |-> CleanNodes(ListOr(workflow_data.nodes), <<>>),
   links |-> workflow_data.links]

\* faulty variant: every node is filed under the first node's type
SectionOfFirst(cleaned_nodes, node_data) == cleaned_nodes[1].v.type

\* the section of configurable_parameters a node goes to
SectionOf(cleaned_nodes, node_data) == node_data.type

\* the loop over cleaned["nodes"].items(), building configurable_parameters;
\* None as soon as int(node_id) raises
RECURSIVE FormatNodes(_, _, _)
FormatNodes(all, items, acc) ==
  IF items = <<>> THEN Some(acc)
  ELSE LET node_id == Head(items).k
           node_data == Head(items).v
           node_type == SectionOf(all, node_data)
           node_title == node_data.title
           section == IF OHas(acc, node_type) THEN OGet(acc, node_type) ELSE <<>>
           instance_key == SpacesToUnderscores(node_id \o <<"_">> \o node_title)
           n == ParseInt(node_id)
       IN IF n = None THEN None
          ELSE FormatNodes(all, Tail(items),
                 OSet(acc, node_type,
                      OSet(section, instance_key,
                           [node_id |-> n[1], title |-> node_title,
                            parameters |-> node_data.configurable])))

\* format_for_easy_editing: None where it raises
format_for_easy_editing(cleaned_workflow) ==
  LET params == FormatNodes(cleaned_workflow.nodes, cleaned_workflow.nodes, <<>>) IN
  IF params = None THEN None
  ELSE Some([workflow_info |-> cleaned_workflow.workflow_info,
             provisioning_script |-> cleaned_workflow.workflow_info.name \o <<".sh">>,
             configurable_parameters |-> params[1],
             workflow_links |-> cleaned_workflow.links])

\* the inner loop of create_user_friendly_template over one type's instances
RECURSIVE TemplateInstances(_, _, _)
TemplateInstances(node_type, instances, acc) ==
  IF instances = <<>> THEN acc
  ELSE LET instance_name == Head(instances).k
           instance_data == Head(instances).v
           params == instance_data.parameters
       IN TemplateInstances(node_type, Tail(instances),
            IF params # <<>>
              THEN OSet(acc, instance_name,
                        [node_type |-> node_type, node_id |-> instance_data.node_id,
                         title |-> instance_data.title,
                         values |-> IF OHas(params, "widgets_values")
                                      THEN OGet(params, "widgets_values") ELSE <<>>])
              ELSE acc)

RECURSIVE TemplateTypes(_, _)
TemplateTypes(sections, acc) ==
  IF sections = <<>> THEN acc
  ELSE TemplateTypes(Tail(sections),
         TemplateInstances(Head(sections).k, Head(sections).v, acc))

create_user_friendly_template(formatted_workflow) ==
  [workflow_name |-> formatted_workflow.workflow_info.name,
   provisioning_script |-> formatted_workflow.workflow_info.name \o <<".sh">>,
   parameters |-> TemplateTypes(formatted_workflow.configurable_parameters, <<>>),
   original_structure |-> formatted_workflow]

OutputFormats == {"minimal", "detailed", "user_friendly"}

\* faulty variant: the cleaner takes widgets_values out of each node (node.pop)
WorkflowAfterPopping(workflow_data) ==
  [workflow_data EXCEPT !.nodes =
     IF workflow_data.nodes = None THEN None
     ELSE Some([i \in 1..Len(workflow_data.nodes[1]) |->
                  [workflow_data.nodes[1][i] EXCEPT !.widgets_values = None]])]

\* the loaded workflow as the four functions leave it: each of them only reads
\* its argument (.get, [], .items()); no statement assigns into, appends to or
\* deletes from it, and the lists they copy into the result are shared, not
\* changed
WorkflowAfterAnalysis(workflow_data) == workflow_data

\* analyze_workflow after the file is read: what it returns, or that it raised
analyze_workflow(workflow_data, workflow_name, output_format) ==
  LET c == clean_workflow_for_config(workflow_data)
      cleaned == [c EXCEPT !.workflow_info.name = workflow_name]
      formatted == format_for_easy_editing(cleaned)
  IN IF output_format = "minimal"
       THEN [raised |-> FALSE, cleaned |-> Some(cleaned), formatted |-> None,
             template |-> None]
     ELSE IF formatted = None
       THEN [raised |-> TRUE, cleaned |-> Some(cleaned), formatted |-> None,
             template |-> None]
     ELSE IF output_format = "detailed"
       THEN [raised |-> FALSE, cleaned |-> Some(cleaned), formatted |-> formatted,
             template |-> None]
     ELSE [raised |-> FALSE, cleaned |-> Some(cleaned), formatted |-> formatted,
           template |-> Some(create_user_friendly_template(formatted[1]))]

\* the workflows explored.  Node ids are numbers and differ from node to
\* node; any key of a node record may be missing.
NodeIds == {None, Some(1), Some(12)}

WidgetInput(w, t) == [name |-> w, type |-> Some(t), widget |-> Some([name |-> w])]
PlainInput(nm) == [name |-> nm, type |-> Some("LATENT"), widget |-> None]

NodeNaming ==
  {[type |-> None, title |-> None],
   [type |-> Some(<<"A">>), title |-> Some(<<"a", " ", "b">>)],
   [type |-> Some(<<"B">>), title |-> None]}

NodeContent ==
  {[widgets_values |-> None, inputs |-> None],
   [widgets_values |-> Some(<<>>), inputs |-> Some(<<PlainInput("in")>>)],
   [widgets_values |-> Some(<<"v1", "v2">>), inputs |-> None],
   [widgets_values |-> None, inputs |-> Some(<<WidgetInput("w", "INT")>>)],
   [widgets_values |-> Some(<<"v2">>),
    inputs |-> Some(<<PlainInput("in"), WidgetInput("w", "INT"), WidgetInput("u", "STRING"),
                      WidgetInput("w", "FLOAT")>>)]}

NodeShapes == NodeNaming \X NodeContent

NodeRecord(i, shape) ==
  [id |-> i, type |-> shape[1].type, title |-> shape[1].title,
   widgets_values |-> shape[2].widgets_values, inputs |-> shape[2].inputs]

\* sequences of k pairwise different ids
DistinctIdSeqs(k) ==
  {ids \in [1..k -> NodeIds] : \A i, j \in 1..k : i # j => ids[i] # ids[j]}

\* the node list with the given ids and shapes
NodeList(ids, shapes) == [i \in 1..Len(ids) |-> NodeRecord(ids[i], shapes[i])]

\* with and without the top-level keys id and links
TopLevels == {[id |-> Some("wf"), links |-> Some(<<"link">>)], [id |-> None, links |-> None]}

\* ------------------------------------------------------- comfyui_api.py
\* A call either returns a value or raises: raised names the exception
\* ("none" for a return), value is None unless the call returned.
Return(v) == [raised |-> "none", value |-> Some(v)]
Raise(e) == [raised |-> e, value |-> None]

\* an input of an API node that is fed by another node: [str(node), slot]
LinkVal(source_node_id, source_slot) ==
  [kind |-> "link", s |-> Digit(source_node_id), n |-> source_slot]

\* dict.update
DictUpdate(d, e) ==
  [x \in (DOMAIN d) \cup (DOMAIN e) |-> IF x \in DOMAIN e THEN e[x] ELSE d[x]]

\* get_latest_workflow on the answer r to GET /history: the history lists the
\* prompt ids in the order the server inserted them, each with the workflow
\* that was run (history[id]["prompt"][2])
get_latest_workflow(r) ==
  IF r.exit_code # 0 THEN Raise("RuntimeError")
  ELSE IF ~r.json THEN Raise("JSONDecodeError")
  ELSE IF r.history = <<>> THEN Raise("RuntimeError")
  ELSE Return(r.history[1].v)

\* faulty variant: a target node that is absent is added
ModifyAddingNode(workflow, image, text, prompt_node, image_node) ==
  LET w1 == IF prompt_node \in DOMAIN workflow
              THEN [workflow EXCEPT ![prompt_node].inputs = DictSet(@, "text", text)]
              ELSE DictSet(workflow, prompt_node,
                           [class_type |-> "CLIPTextEncode",
                            inputs |-> DictSet(EmptyDict, "text", text)])
  IN IF image_node \in DOMAIN w1
       THEN [w1 EXCEPT ![image_node].inputs = DictSet(@, "image", image)]
       ELSE DictSet(w1, image_node,
                    [class_type |-> "LoadImage",
                     inputs |-> DictSet(EmptyDict, "image", image)])

\* modify_workflow: the dict it was given, after the two updates (the same
\* object is returned)
modify_workflow(workflow, image, text, prompt_node, image_node) ==
  LET w1 == IF prompt_node \in DOMAIN workflow
              THEN [workflow EXCEPT ![prompt_node].inputs = DictSet(@, "text", text)]
              ELSE workflow
  IN IF image_node \in DOMAIN w1
       THEN [w1 EXCEPT ![image_node].inputs = DictSet(@, "image", image)]
       ELSE w1

\* load_workflow_from_file: the first entry of links with the given id
RECURSIVE FindLink(_, _)
FindLink(links, link_id) ==
  IF links = <<>> THEN None
  ELSE IF Head(links).id = link_id THEN Some(Head(links))
  ELSE FindLink(Tail(links), link_id)

\* load_workflow_from_file: the loop over a node's inputs that have a link
RECURSIVE LinkedInputs(_, _, _)
LinkedInputs(inputs, links, acc) ==
  IF inputs = <<>> THEN acc
  ELSE LET input_def == Head(inputs)
           link == IF input_def.link = None THEN None
                   ELSE FindLink(links, input_def.link[1])
       IN LinkedInputs(Tail(inputs), links,
            IF link # None
              THEN DictSet(acc, input_def.name,
                           LinkVal(link[1].from_node, link[1].from_slot))
              ELSE acc)

\* load_workflow_from_file: the API node built from one node of the file
LoadNode(node, links) ==
  LET linked == LinkedInputs(ListOr(node.inputs), links, EmptyDict)
      api == IF node.widgets_values # None /\ node.widgets_values[1] # <<>>
                  /\ node.inputs # None
               THEN DictUpdate(linked,
                      map_widget_values_to_inputs(node.widgets_values[1], node.inputs[1]))
               ELSE linked
  IN [class_type |-> node.type, inputs |-> api]

RECURSIVE LoadNodes(_, _, _)
LoadNodes(nodes, links, prompt) ==
  IF nodes = <<>> THEN prompt
  ELSE LoadNodes(Tail(nodes), links,
         DictSet(prompt, IntToStr(Head(nodes).id), LoadNode(Head(nodes), links)))

\* load_workflow_from_file on parsed file data: a file with 'nodes' is
\* converted, any other is taken to be in API format already
load_workflow_from_file(data) ==
  IF data.kind = "ui" THEN LoadNodes(data.nodes, data.links, EmptyDict)
  ELSE data.prompt

\* audit_workflow_changes: the value of changes_found after the loops
audit_workflow_changes(original, modified) ==
  \E node_id \in DOMAIN modified :
    /\ node_id \in DOMAIN original
    /\ \E input_name \in DOMAIN modified[node_id].inputs :
         \/ input_name \notin DOMAIN original[node_id].inputs
         \/ original[node_id].inputs[input_name] # modified[node_id].inputs[input_name]

\* convert_api_to_workflow_format: the loop over the nodes of the file data;
\* it raises as soon as widgets_values[0] is assigned on an empty list
RECURSIVE ConvertNodes(_, _, _, _)
ConvertNodes(nodes, image, text, acc) ==
  IF nodes = <<>> THEN [raised |-> "none", nodes |-> acc]
  ELSE LET node == Head(nodes)
           node_id == IntToStr(node.id)
           new == IF node_id = <<"6">> /\ node.type = "CLIPTextEncode" THEN Some(text)
                  ELSE IF node_id = <<"6", "2">> /\ node.type = "LoadImage" THEN Some(image)
                  ELSE None
       IN IF new = None \/ node.widgets_values = None
            THEN ConvertNodes(Tail(nodes), image, text, Append(acc, node))
          ELSE IF node.widgets_values[1] = <<>>
            THEN [raised |-> "IndexError", nodes |-> acc \o nodes]
          ELSE ConvertNodes(Tail(nodes), image, text,
                 Append(acc, [node EXCEPT !.widgets_values =
                                Some([node.widgets_values[1] EXCEPT ![1] = new[1]])]))

\* convert_api_to_workflow_format: the api_workflow argument is never read;
\* the copy is shallow, so the nodes of the file data are the ones updated
convert_api_to_workflow_format(data, image, text) ==
  IF data.kind # "ui" THEN Return(data)
  ELSE LET c == ConvertNodes(data.nodes, image, text, <<>>) IN
       IF c.raised # "none" THEN Raise(c.raised)
       ELSE Return([data EXCEPT !.nodes = c.nodes])

\* the file data as the call leaves it (its node records are shared with the
\* copy)
DataAfterConvert(data, image, text) ==
  IF data.kind # "ui" THEN data
  ELSE [data EXCEPT !.nodes = ConvertNodes(data.nodes, image, text, <<>>).nodes]

\* faulty variant: whatever the response holds under prompt_id is returned
QueuePromptUnchecked(r) ==
  IF r.ssh = "lost_before_post" THEN [submitted |-> FALSE, result |-> Raise("SSHException")]
  ELSE IF r.ssh = "lost_after_post" THEN [submitted |-> TRUE, result |-> Raise("SSHException")]
  ELSE IF r.exit_code # 0 THEN [submitted |-> TRUE, result |-> Raise("RuntimeError")]
  ELSE IF r.body = "not_json" THEN [submitted |-> TRUE, result |-> Raise("JSONDecodeError")]
  ELSE IF r.body = "list" THEN [submitted |-> TRUE, result |-> Raise("AttributeError")]
  ELSE IF r.prompt_id = None THEN [submitted |-> TRUE, result |-> Raise("RuntimeError")]
  ELSE [submitted |-> TRUE, result |-> Return(r.prompt_id[1])]

\* queue_prompt on the way r the three remote commands went: whether the POST
\* to /prompt was run, and what the call returns or raises
queue_prompt(r) ==
  IF r.ssh = "lost_before_post" THEN [submitted |-> FALSE, result |-> Raise("SSHException")]
  ELSE IF r.ssh = "lost_after_post" THEN [submitted |-> TRUE, result |-> Raise("SSHException")]
  ELSE IF r.exit_code # 0 THEN [submitted |-> TRUE, result |-> Raise("RuntimeError")]
  ELSE IF r.body = "not_json" THEN [submitted |-> TRUE, result |-> Raise("JSONDecodeError")]
  ELSE IF r.body = "list" THEN [submitted |-> TRUE, result |-> Raise("AttributeError")]
  ELSE IF r.prompt_id = None \/ r.prompt_id[1] = ""
         THEN [submitted |-> TRUE, result |-> Raise("RuntimeError")]
  ELSE [submitted |-> TRUE, result |-> Return(r.prompt_id[1])]

\* faulty variant: a run that raised still ends with status 0
MainExitStatusZero(e) == 0

\* main: the status the process ends with after run_workflow returned (e is
\* "none") or an exception was caught
MainExitStatus(e) == IF e = "none" THEN 0 ELSE 1

\* the order of the steps in run_workflow / run_workflow_from_file
StepOrder(m) ==
  IF m = "latest" THEN <<"upload", "obtain", "modify", "queue">>
  ELSE <<"upload", "obtain", "modify", "audit", "save", "queue">>

\* ---- the inputs explored
ApiNode(class_type, inputs) == [class_type |-> class_type, inputs |-> inputs]

\* a prompt and an image node with the default ids 6 and 62
BothNodes(text) ==
  (<<"6">> :> ApiNode("CLIPTextEncode",
                 ("text" :> StrVal(text)) @@ ("clip" :> LinkVal(4, 1))))
    @@ (<<"6", "2">> :> ApiNode("LoadImage", "image" :> StrVal("old.png")))

\* workflows in API format: as found in the history or in a file
ApiWorkflows ==
  {BothNodes("old"),
   BothNodes("older"),
   <<"6">> :> ApiNode("CLIPTextEncode", "text" :> StrVal("old")),
   (<<"6", "2">> :> ApiNode("LoadImage", EmptyDict))
     @@ (<<"7">> :> ApiNode("CLIPTextEncode", "text" :> StrVal("old")))}

\* histories of k executed prompts, keyed by prompt id
Histories(k) ==
  {[i \in 1..k |-> [k |-> <<"p1", "p2", "p3", "p4">>[i], v |-> w[i]]] :
     w \in [1..k -> ApiWorkflows]}

\* the answers to GET /history
HistoryAnswers(n) ==
  {[exit_code |-> 1, json |-> TRUE, history |-> <<>>],
   [exit_code |-> 0, json |-> FALSE, history |-> <<>>]}
    \cup {[exit_code |-> 0, json |-> TRUE, history |-> h] :
            h \in UNION {Histories(k) : k \in 0..n}}

NoHistory == [exit_code |-> 0, json |-> TRUE, history |-> <<>>]

\* nodes of a workflow file in UI format
ClipLink == [name |-> "clip", widget |-> None, link |-> Some(7)]
TextWidget == [name |-> "text", widget |-> Some([name |-> "text"]), link |-> None]
ImageWidget == [name |-> "image", widget |-> Some([name |-> "image"]), link |-> None]

UiShapes ==
  {[type |-> "CLIPTextEncode", widgets_values |-> Some(<<StrVal("old")>>),
    inputs |-> Some(<<ClipLink, TextWidget>>)],
   [type |-> "CLIPTextEncode", widgets_values |-> None, inputs |-> None],
   [type |-> "CLIPTextEncode", widgets_values |-> Some(<<>>),
    inputs |-> Some(<<TextWidget>>)],
   [type |-> "LoadImage", widgets_values |-> Some(<<StrVal("old.png"), StrVal("image")>>),
    inputs |-> Some(<<ImageWidget>>)],
   [type |-> "LoadImage", widgets_values |-> Some(<<StrVal("old.png")>>),
    inputs |-> None]}

\* a node of the file: one of the shapes under a node id
UiNode(i, shape) ==
  [id |-> i, type |-> shape.type, widgets_values |-> shape.widgets_values,
   inputs |-> shape.inputs]

NoFile ==
  [exit_code |-> 0, json |-> TRUE, kind |-> "none", nodes |-> <<>>, links |-> <<>>,
   prompt |-> EmptyDict]

UiFile(nodes) ==
  [NoFile EXCEPT !.kind = "ui", !.nodes = nodes,
                 !.links = <<[id |-> 7, from_node |-> 4, from_slot |-> 1]>>]
ApiFile(w) == [NoFile EXCEPT !.kind = "api", !.prompt = w]

\* what the remote commands of queue_prompt and the server can answer
QueueAnswers ==
  {[ssh |-> "lost_before_post", exit_code |-> 0, body |-> "none", prompt_id |-> None],
   [ssh |-> "lost_after_post", exit_code |-> 0, body |-> "none", prompt_id |-> None],
   [ssh |-> "ok", exit_code |-> 7, body |-> "none", prompt_id |-> None],
   [ssh |-> "ok", exit_code |-> 0, body |-> "not_json", prompt_id |-> None],
   [ssh |-> "ok", exit_code |-> 0, body |-> "list", prompt_id |-> None],
   [ssh |-> "ok", exit_code |-> 0, body |-> "object", prompt_id |-> None],
   [ssh |-> "ok", exit_code |-> 0, body |-> "object", prompt_id |-> Some("")],
   [ssh |-> "ok", exit_code |-> 0, body |-> "object", prompt_id |-> Some("abc-1")]}

NoAnswer == [ssh |-> "none", exit_code |-> 0, body |-> "none", prompt_id |-> None]

PromptTexts == {StrVal("a cat"), StrVal("old")}

\* os.path.basename of the local image path
UploadedName == StrVal("cat.png")

\* ------------------------------------------------------------ get_ssh_info
\* An optional value is a sequence: <<>> for a missing key or None, <<v>> for v.
Hosts == {<<>>, <<"ssh5.vast.ai">>}
Ports == {<<>>, <<0>>, <<-1>>, <<22000>>}
ActualStatuses == {<<>>, <<"running">>, <<"loading">>}

InstanceData == [actual_status : ActualStatuses, ssh_host : Hosts, ssh_port : Ports]

\* Python truthiness of an optional string / an optional integer
TruthyStr(o) == o # <<>> /\ o[1] # ""
TruthyInt(o) == o # <<>> /\ o[1] # 0

\* faulty variant: the port the API reports is used as it is
GetSshInfoApiPort(instance_data) ==
  LET status == IF instance_data.actual_status = <<>> THEN "unknown"
                ELSE instance_data.actual_status[1]
      ssh_host == instance_data.ssh_host
      ssh_port == instance_data.ssh_port
  IN IF status # "running" THEN <<>>
     ELSE IF ~TruthyStr(ssh_host) \/ ~TruthyInt(ssh_port) THEN <<>>
     ELSE <<[host |-> ssh_host[1], port |-> ssh_port[1], status |-> status]>>

\* get_ssh_info for instance data that was found: <<>> is None
get_ssh_info(instance_data) ==
  LET status == IF instance_data.actual_status = <<>> THEN "unknown"
                ELSE instance_data.actual_status[1]
      ssh_host == instance_data.ssh_host
      api_port == instance_data.ssh_port
      ssh_port == IF TruthyStr(ssh_host) /\ TruthyInt(api_port)
                  THEN <<api_port[1] + 1>> ELSE api_port
  IN IF status # "running" THEN <<>>
     ELSE IF ~TruthyStr(ssh_host) \/ ~TruthyInt(ssh_port) THEN <<>>
     ELSE <<[host |-> ssh_host[1], port |-> ssh_port[1], status |-> status]>>

\* everything get_ssh_info can return for the instance data above
SshInfoResults == {get_ssh_info(i) : i \in InstanceData}

\* ------------------------------------------------------------------ state
VARIABLES sshPhase, key_exists, sshOutcome, raw_output, status_data, tmp_left,
          instance_data, ssh_info

VARIABLES pc, argc, api_key, max_wait_minutes, poll_interval, elapsed, polls,
          lastPoll, sleep_arg, ret, exit_code

sshVars == <<sshPhase, key_exists, sshOutcome, raw_output, status_data, tmp_left,
             instance_data, ssh_info>>

monVars == <<pc, argc, api_key, max_wait_minutes, poll_interval, elapsed, polls,
             lastPoll, sleep_arg, ret, exit_code>>

VARIABLES widPhase, inputs_config, widget_values, api_inputs

widVars == <<widPhase, inputs_config, widget_values, api_inputs>>

VARIABLES flatPhase, workflow_data, output_format, flat_result, flat_again

flatVars == <<flatPhase, workflow_data, output_format, flat_result, flat_again>>

VARIABLES mode, comfy_argc, port_arg, key_found, prompt_text, prompt_node_id,
          image_node_id, history_answer, workflow_file

\* what a run is started with and what the remote host holds
comfyInputs == <<mode, comfy_argc, port_arg, key_found, prompt_text, prompt_node_id,
                 image_node_id, history_answer, workflow_file>>

VARIABLES cpc, image_filename, original_workflow_data, workflow_at_load,
          original_workflow, modified_workflow, changes_found, ui_workflow,
          queue_answer, submitted, prompt_id, raised, steps, comfy_exit

comfyVars == <<comfyInputs, cpc, image_filename, original_workflow_data,
               workflow_at_load, original_workflow, modified_workflow, changes_found,
               ui_workflow, queue_answer, submitted, prompt_id, raised, steps,
               comfy_exit>>

vars == <<sshVars, monVars, widVars, flatVars, comfyVars>>

NoOutcome == [kind |-> "none", text |-> <<>>]
NoStatus == [status |-> <<>>, details |-> <<>>]
NoPoll == [kind |-> "none", info |-> <<>>, ssh |-> "none", status |-> <<>>]

SshIdle ==
  /\ sshPhase = "idle"
  /\ sshOutcome = NoOutcome
  /\ raw_output = <<>>
  /\ status_data = NoStatus
  /\ tmp_left = FALSE
  /\ instance_data = <<>>
  /\ ssh_info = <<>>

NoWorkflow == [id |-> None, nodes |-> None, links |-> None]
NoResult == [raised |-> FALSE, cleaned |-> None, formatted |-> None, template |-> None]

FlatIdle ==
  /\ flatPhase = "off" /\ workflow_data = NoWorkflow /\ output_format = "none"
  /\ flat_result = NoResult /\ flat_again = NoResult

WidIdle ==
  /\ widPhase = "off" /\ inputs_config = <<>> /\ widget_values = <<>>
  /\ api_inputs = <<>>

\* the controller before anything ran
ComfyStart ==
  /\ image_filename = None
  /\ original_workflow_data = NoFile
  /\ workflow_at_load = None /\ original_workflow = None /\ modified_workflow = None
  /\ changes_found = None /\ ui_workflow = None
  /\ queue_answer = NoAnswer /\ submitted = FALSE /\ prompt_id = None
  /\ raised = "none" /\ steps = <<>> /\ comfy_exit = -1

ComfyIdle ==
  /\ cpc = "off" /\ mode = "none" /\ comfy_argc = 0 /\ port_arg = <<>>
  /\ key_found = FALSE /\ prompt_text = StrVal("") /\ prompt_node_id = <<>>
  /\ image_node_id = <<>> /\ history_answer = NoHistory /\ workflow_file = NoFile
  /\ ComfyStart

MonIdle ==
  /\ pc = "off" /\ argc = 0 /\ api_key = FALSE /\ max_wait_minutes = 0
  /\ poll_interval = 0 /\ elapsed = 0 /\ polls = 0 /\ lastPoll = NoPoll
  /\ sleep_arg = 0 /\ ret = "none" /\ exit_code = -1

\* ------------------------------------------- execute / parse in isolation
SshInit ==
  /\ ComfyIdle
  /\ sshPhase = "start"
  /\ sshOutcome = NoOutcome
  /\ raw_output = <<>>
  /\ status_data = NoStatus
  /\ tmp_left = FALSE
  /\ instance_data \in {<<>>} \cup {<<d>> : d \in InstanceData}
  /\ ssh_info = <<>>
  /\ key_exists \in BOOLEAN
  /\ MonIdle
  /\ WidIdle
  /\ FlatIdle

\* get_ssh_info on what get_instance_info returned (None: nothing found);
\* the script is run only with connection details
GetSshInfo ==
  /\ sshPhase = "start"
  /\ ssh_info' = IF instance_data = <<>> THEN <<>> ELSE get_ssh_info(instance_data[1])
  /\ sshPhase' = IF ssh_info' = <<>> THEN "no_ssh" ELSE "idle"
  /\ UNCHANGED <<comfyVars, key_exists, sshOutcome, raw_output, status_data, tmp_left, instance_data,
                 monVars, widVars, flatVars>>

\* one call of execute_remote_script; without the key file no subprocess runs
Execute ==
  /\ sshPhase = "idle"
  /\ \E o \in (IF key_exists THEN SshOutcomes ELSE {NoOutcome}) :
       /\ sshOutcome' = o
       /\ raw_output' = ExecuteRemoteScript(key_exists, o)
       /\ tmp_left' = TmpFileLeft(key_exists, o)
  /\ sshPhase' = "ran"
  /\ UNCHANGED <<comfyVars, key_exists, status_data, instance_data, ssh_info, monVars, widVars,
                 flatVars>>

\* parse_status_output applied to what the call returned
Parse ==
  /\ sshPhase = "ran"
  /\ status_data' = parse_status_output(raw_output)
  /\ sshPhase' = "parsed"
  /\ UNCHANGED <<comfyVars, key_exists, sshOutcome, raw_output, tmp_left, instance_data, ssh_info,
                 monVars, widVars, flatVars>>

SshNext == GetSshInfo \/ Execute \/ Parse

SpecSsh == SshInit /\ [][SshNext]_vars

\* ------------------------------------------------------- monitor and main
\* seconds the subprocess may take before subprocess.run gives up
SshTimeout == 30

\* time one poll (API call, ssh run) can take
PollDurations == {0, SshTimeout}

PollIntervals == {10, 40}

\* ssh outcomes explored inside the polling loop
MonStdoutTokens == {"STATUS: ", "STATUS:", "READY", "ERROR", NL, "x"}
MonStderrTokens == {"Connection refused", "x", NL, "STATUS: ", "ERROR"}

MonSshOutcomes ==
  [kind : {"exit0"}, text : SeqsUpTo(MonStdoutTokens, MaxOutLen)]
    \cup [kind : {"nonzero", "Exception"}, text : SeqsUpTo(MonStderrTokens, MaxOutLen)]
    \cup [kind : {"TimeoutExpired", "FileNotFoundError"}, text : {<<>>}]

\* faulty variant: the budget is one minute longer than asked for
MaxWaitTimeExtraMinute == (max_wait_minutes + 1) * 60

max_wait_time == max_wait_minutes * 60

\* faulty variant: READY anywhere in the status counts as ready
MonitorDecisionSubstring(status) ==
  IF HasSub(status, "READY") THEN "True"
  ELSE IF status = <<"ERROR">> THEN "False"
  ELSE "continue"

\* what the loop does with a parsed status
MonitorDecision(status) ==
  IF status = <<"READY">> THEN "True"
  ELSE IF status = <<"ERROR">> THEN "False"
  ELSE "continue"

\* the argument of the time.sleep that follows a poll of the given kind
SleepArg(kind) ==
  CASE kind = "no_instance" -> poll_interval
    [] kind = "no_ssh"      -> poll_interval
    [] kind = "no_status"   -> poll_interval
    [] OTHER                -> poll_interval

\* faulty variant: only a False result is reported as failure
ExitCodeOnlyFalse(r) == IF r = "False" THEN 1 ELSE 0

\* the exit status main gives for monitor's result (or for an exception)
ExitCode(r) == IF r = "True" THEN 0 ELSE 1

MonInit ==
  /\ ComfyIdle
  /\ SshIdle
  /\ key_exists \in BOOLEAN
  /\ pc = "main"
  /\ argc \in 1..3
  /\ api_key \in BOOLEAN
  /\ max_wait_minutes \in 0..MaxWaitMinutes
  /\ poll_interval \in PollIntervals
  /\ elapsed = 0 /\ polls = 0 /\ lastPoll = NoPoll /\ sleep_arg = 0
  /\ ret = "none" /\ exit_code = -1
  /\ WidIdle
  /\ FlatIdle

\* main: the argument count check
MainUsage ==
  /\ pc = "main"
  /\ argc # 2
  /\ exit_code' = 1
  /\ pc' = "exit"
  /\ UNCHANGED <<comfyVars, sshVars, widVars, flatVars, argc, api_key, max_wait_minutes, poll_interval, elapsed,
                 polls, lastPoll, sleep_arg, ret>>

\* main: VastInstanceMonitor(instance_id); raises ValueError without the API key
Construct ==
  /\ pc = "main"
  /\ argc = 2
  /\ IF api_key THEN pc' = "loop" /\ ret' = ret
                ELSE pc' = "returned" /\ ret' = "raise"
  /\ UNCHANGED <<comfyVars, sshVars, widVars, flatVars, argc, api_key, max_wait_minutes, poll_interval, elapsed,
                 polls, lastPoll, sleep_arg, exit_code>>

\* the while condition; leaving the loop returns False
LoopCheck ==
  /\ pc = "loop"
  /\ IF elapsed < max_wait_time
       THEN pc' = "poll" /\ ret' = ret
       ELSE pc' = "returned" /\ ret' = "False"
  /\ UNCHANGED <<comfyVars, sshVars, widVars, flatVars, argc, api_key, max_wait_minutes, poll_interval, elapsed,
                 polls, lastPoll, sleep_arg, exit_code>>

PollFrame == UNCHANGED <<comfyVars, sshVars, widVars, flatVars, argc, api_key, max_wait_minutes, poll_interval,
                         sleep_arg, exit_code>>

\* get_instance_info returned None (API error or instance not listed)
PollNoInstance ==
  /\ pc = "poll"
  /\ \E d \in PollDurations : elapsed' = elapsed + d
  /\ polls' = polls + 1
  /\ lastPoll' = [kind |-> "no_instance", info |-> <<>>, ssh |-> "none", status |-> <<>>]
  /\ pc' = "sleep" /\ ret' = ret
  /\ PollFrame

\* the API answer cannot be processed (not JSON, not a mapping, a port that is
\* no number): the exception leaves monitor
PollRaise ==
  /\ pc = "poll"
  /\ \E d \in PollDurations : elapsed' = elapsed + d
  /\ polls' = polls + 1
  /\ lastPoll' = [kind |-> "raise", info |-> <<>>, ssh |-> "none", status |-> <<>>]
  /\ pc' = "returned" /\ ret' = "raise"
  /\ PollFrame

\* the instance was found but get_ssh_info returned None
PollNoSsh ==
  /\ pc = "poll"
  /\ \E d \in PollDurations : elapsed' = elapsed + d
  /\ <<>> \in SshInfoResults
  /\ polls' = polls + 1
  /\ lastPoll' = [kind |-> "no_ssh", info |-> <<>>, ssh |-> "none", status |-> <<>>]
  /\ pc' = "sleep" /\ ret' = ret
  /\ PollFrame

\* the status script was attempted over ssh
PollScript ==
  /\ pc = "poll"
  /\ \E d \in PollDurations : elapsed' = elapsed + d
  /\ polls' = polls + 1
  /\ \E info \in SshInfoResults \ {<<>>},
        o \in (IF key_exists THEN MonSshOutcomes ELSE {NoOutcome}) :
       LET raw == ExecuteRemoteScript(key_exists, o) IN
       IF ~HasStatusMarker(raw)
         THEN /\ lastPoll' = [kind |-> "no_status", info |-> info, ssh |-> o.kind,
                              status |-> <<>>]
              /\ pc' = "sleep" /\ ret' = ret
         ELSE LET sd == parse_status_output(raw)
                  dec == MonitorDecision(sd.status)
              IN /\ lastPoll' = [kind |-> "parsed", info |-> info, ssh |-> o.kind,
                                 status |-> sd.status]
                 /\ IF dec = "continue" THEN pc' = "sleep" /\ ret' = ret
                                        ELSE pc' = "returned" /\ ret' = dec
  /\ PollFrame

\* time.sleep before the next check; the iteration's results are dropped
Sleep ==
  /\ pc = "sleep"
  /\ sleep_arg' = SleepArg(lastPoll.kind)
  /\ elapsed' = elapsed + sleep_arg'
  /\ lastPoll' = NoPoll
  /\ pc' = "loop"
  /\ UNCHANGED <<comfyVars, sshVars, widVars, flatVars, argc, api_key, max_wait_minutes, poll_interval, polls,
                 ret, exit_code>>

\* main: sys.exit(0 if success else 1), or the except branch's sys.exit(1)
Exit ==
  /\ pc = "returned"
  /\ exit_code' = ExitCode(ret)
  /\ pc' = "exit"
  /\ UNCHANGED <<comfyVars, sshVars, widVars, flatVars, argc, api_key, max_wait_minutes, poll_interval, elapsed,
                 polls, lastPoll, sleep_arg, ret>>

MonNext ==
  \/ MainUsage \/ Construct \/ LoopCheck
  \/ PollNoInstance \/ PollRaise \/ PollNoSsh \/ PollScript
  \/ Sleep \/ Exit

Spec == MonInit /\ [][MonNext]_vars

\* the same program with every call returning: main and monitor run in one
\* thread, the API call, the ssh run and time.sleep each come back (they are
\* bounded by their timeouts), so a step that can be taken is taken
SpecLive == Spec /\ WF_vars(MonNext)

\* ---------------------------------------------------- the widget remapper
WidInit ==
  /\ ComfyIdle
  /\ SshIdle /\ key_exists = FALSE
  /\ MonIdle
  /\ FlatIdle
  /\ widPhase = "start"
  /\ inputs_config \in InputConfigs(MaxInputs)
  /\ widget_values = <<>>
  /\ api_inputs = EmptyDict

\* one call of map_widget_values_to_inputs on the node's inputs
MapWidgets ==
  /\ widPhase = "start"
  /\ \E values \in SeqsUpTo(WidgetValues, MaxValues) :
       /\ widget_values' = values
       /\ api_inputs' = map_widget_values_to_inputs(values, inputs_config)
  /\ widPhase' = "mapped"
  /\ UNCHANGED <<comfyVars, inputs_config, sshVars, monVars, flatVars>>

WidNext == MapWidgets

SpecWidgets == WidInit /\ [][WidNext]_vars

\* ------------------------------------------------------------ the flattener
FlatInit ==
  /\ ComfyIdle
  /\ SshIdle /\ key_exists = FALSE
  /\ MonIdle
  /\ WidIdle
  /\ flatPhase = "loaded"
  /\ \/ workflow_data = NoWorkflow
     \/ \E k \in 0..MaxNodes :
          \E ids \in DistinctIdSeqs(k), shapes \in [1..k -> NodeShapes], top \in TopLevels :
            workflow_data = [id |-> top.id, nodes |-> Some(NodeList(ids, shapes)),
                             links |-> top.links]
  /\ output_format = "none"
  /\ flat_result = NoResult
  /\ flat_again = NoResult

\* analyze_workflow on the loaded workflow, in one of the three formats
Analyze ==
  /\ flatPhase = "loaded"
  /\ \E f \in OutputFormats :
       /\ output_format' = f
       /\ flat_result' = analyze_workflow(workflow_data, <<"wf">>, f)
  /\ workflow_data' = WorkflowAfterAnalysis(workflow_data)
  /\ flatPhase' = "done"
  /\ UNCHANGED <<comfyVars, flat_again, sshVars, monVars, widVars>>

\* a second run in the same format on the workflow the first run left behind
AnalyzeAgain ==
  /\ flatPhase = "done"
  /\ flat_again' = analyze_workflow(workflow_data, <<"wf">>, output_format)
  /\ workflow_data' = WorkflowAfterAnalysis(workflow_data)
  /\ flatPhase' = "again"
  /\ UNCHANGED <<comfyVars, output_format, flat_result, sshVars, monVars, widVars>>

FlatNext == Analyze \/ AnalyzeAgain

SpecFlatten == FlatInit /\ [][FlatNext]_vars

\* --------------------------------------------- the ComfyUI controller
\* sequences of k pairwise different node ids
UiIdSeqs(k) ==
  {ids \in [1..k -> {6, 62, 7}] : \A i, j \in 1..k : i # j => ids[i] # ids[j]}

\* main started with some command line, or run_workflow_from_file called on a
\* connected controller
ComfyInit ==
  /\ SshIdle /\ key_exists = FALSE
  /\ MonIdle
  /\ WidIdle
  /\ FlatIdle
  /\ ComfyStart
  /\ prompt_text \in PromptTexts
  /\ \/ /\ mode = "latest" /\ cpc = "main"
        /\ comfy_argc \in {4, 5, 6}
        /\ port_arg \in {<<"2", "2">>, <<"x">>}
        /\ key_found \in BOOLEAN
        /\ prompt_node_id = <<"6">> /\ image_node_id = <<"6", "2">>
        /\ history_answer \in HistoryAnswers(MaxHistory)
        /\ workflow_file = NoFile
     \/ /\ mode = "file" /\ cpc = "upload"
        /\ comfy_argc = 0 /\ port_arg = <<>> /\ key_found = TRUE
        /\ prompt_node_id \in {<<"6">>, <<"7">>}
        /\ image_node_id \in {<<"6", "2">>, <<"6">>}
        /\ history_answer = NoHistory
        /\ \/ workflow_file \in {[NoFile EXCEPT !.exit_code = 1], [NoFile EXCEPT !.json = FALSE]}
           \/ \E w \in ApiWorkflows : workflow_file = ApiFile(w)
           \/ \E k \in 0..MaxNodes :
                \E ids \in UiIdSeqs(k), shapes \in [1..k -> UiShapes] :
                  workflow_file = UiFile([i \in 1..k |-> UiNode(ids[i], shapes[i])])

\* main up to the try block: the argument count, int(sys.argv[3]) and the
\* constructor; an exception raised here is not caught and ends the process
\* with status 1
ComfyMain ==
  /\ cpc = "main"
  /\ IF comfy_argc < 5
       THEN comfy_exit' = 1 /\ cpc' = "exit" /\ raised' = raised
     ELSE IF ParseInt(port_arg) = None \/ ~key_found
       THEN comfy_exit' = 1 /\ cpc' = "exit" /\ raised' = "ValueError"
     ELSE comfy_exit' = comfy_exit /\ cpc' = "connect" /\ raised' = raised
  /\ UNCHANGED <<sshVars, monVars, widVars, flatVars, comfyInputs,
                 image_filename, original_workflow_data,
                 workflow_at_load, original_workflow, modified_workflow, changes_found,
                 ui_workflow, queue_answer, submitted, prompt_id, steps>>

\* main: controller.connect(); False leads to sys.exit(1)
ComfyConnect ==
  /\ cpc = "connect"
  /\ \E connected \in BOOLEAN :
       IF connected THEN cpc' = "upload" /\ comfy_exit' = comfy_exit
                    ELSE cpc' = "exit" /\ comfy_exit' = 1
  /\ UNCHANGED <<sshVars, monVars, widVars, flatVars, comfyInputs,
                 image_filename, original_workflow_data,
                 workflow_at_load, original_workflow, modified_workflow, changes_found,
                 ui_workflow, queue_answer, submitted, prompt_id, raised, steps>>

\* upload_image: the local file is missing, the transfer fails, or the
\* remote file name is returned
UploadImage ==
  /\ cpc = "upload"
  /\ steps' = Append(steps, "upload")
  /\ \E o \in {"ok", "FileNotFoundError", "IOError"} :
       IF o = "ok"
         THEN image_filename' = Some(UploadedName) /\ cpc' = "obtain" /\ raised' = raised
         ELSE image_filename' = image_filename /\ cpc' = "raised" /\ raised' = o
  /\ UNCHANGED <<sshVars, monVars, widVars, flatVars, comfyInputs,
                 original_workflow_data, workflow_at_load,
                 original_workflow, modified_workflow, changes_found, ui_workflow,
                 queue_answer, submitted, prompt_id, comfy_exit>>

\* run_workflow: workflow = self.get_latest_workflow()
GetLatest ==
  /\ cpc = "obtain" /\ mode = "latest"
  /\ steps' = Append(steps, "obtain")
  /\ LET r == get_latest_workflow(history_answer) IN
       /\ raised' = r.raised
       /\ cpc' = IF r.raised = "none" THEN "modify" ELSE "raised"
       /\ original_workflow' = r.value
       /\ workflow_at_load' = r.value
  /\ UNCHANGED <<sshVars, monVars, widVars, flatVars, comfyInputs,
                 image_filename, original_workflow_data,
                 modified_workflow, changes_found, ui_workflow, queue_answer, submitted,
                 prompt_id, comfy_exit>>

\* run_workflow_from_file: the file is read and parsed, then loaded in API
\* format
ReadFile ==
  /\ cpc = "obtain" /\ mode = "file"
  /\ steps' = Append(steps, "obtain")
  /\ IF workflow_file.exit_code # 0
       THEN /\ raised' = "RuntimeError" /\ cpc' = "raised"
            /\ UNCHANGED <<original_workflow_data, original_workflow, workflow_at_load>>
     ELSE IF ~workflow_file.json
       THEN /\ raised' = "JSONDecodeError" /\ cpc' = "raised"
            /\ UNCHANGED <<original_workflow_data, original_workflow, workflow_at_load>>
     ELSE /\ raised' = raised /\ cpc' = "modify"
          /\ original_workflow_data' = workflow_file
          /\ original_workflow' = Some(load_workflow_from_file(workflow_file))
          /\ workflow_at_load' = Some(load_workflow_from_file(workflow_file))
  /\ UNCHANGED <<sshVars, monVars, widVars, flatVars, comfyInputs,
                 image_filename, modified_workflow, changes_found,
                 ui_workflow, queue_answer, submitted, prompt_id, comfy_exit>>

\* modify_workflow changes the dict it is given and returns it: the caller's
\* original and modified workflow are one object
Modify ==
  /\ cpc = "modify"
  /\ steps' = Append(steps, "modify")
  /\ LET m == modify_workflow(original_workflow[1], image_filename[1], prompt_text,
                              prompt_node_id, image_node_id)
     IN /\ original_workflow' = Some(m)
        /\ modified_workflow' = Some(m)
  /\ cpc' = IF mode = "latest" THEN "queue" ELSE "audit"
  /\ UNCHANGED <<sshVars, monVars, widVars, flatVars, comfyInputs,
                 image_filename, original_workflow_data,
                 workflow_at_load, changes_found, ui_workflow, queue_answer, submitted,
                 prompt_id, raised, comfy_exit>>

\* run_workflow_from_file: audit_workflow_changes(original_workflow,
\* modified_workflow, ...)
Audit ==
  /\ cpc = "audit"
  /\ steps' = Append(steps, "audit")
  /\ changes_found' = Some(audit_workflow_changes(original_workflow[1], modified_workflow[1]))
  /\ cpc' = "save"
  /\ UNCHANGED <<sshVars, monVars, widVars, flatVars, comfyInputs,
                 image_filename, original_workflow_data,
                 workflow_at_load, original_workflow, modified_workflow, ui_workflow,
                 queue_answer, submitted, prompt_id, raised, comfy_exit>>

\* run_workflow_from_file: save_modified_workflow, then
\* save_ui_compatible_workflow
Save ==
  /\ cpc = "save"
  /\ steps' = Append(steps, "save")
  /\ LET c == convert_api_to_workflow_format(original_workflow_data, image_filename[1],
                                             prompt_text)
     IN /\ ui_workflow' = c.value
        /\ raised' = c.raised
        /\ cpc' = IF c.raised = "none" THEN "queue" ELSE "raised"
  /\ original_workflow_data' =
       DataAfterConvert(original_workflow_data, image_filename[1], prompt_text)
  /\ UNCHANGED <<sshVars, monVars, widVars, flatVars, comfyInputs,
                 image_filename, workflow_at_load,
                 original_workflow, modified_workflow, changes_found, queue_answer,
                 submitted, prompt_id, comfy_exit>>

\* queue_prompt(modified_workflow); on return the caller prints the success
\* banner and returns the id
QueuePrompt ==
  /\ cpc = "queue"
  /\ steps' = Append(steps, "queue")
  /\ \E a \in QueueAnswers :
       LET q == queue_prompt(a) IN
       /\ queue_answer' = a
       /\ submitted' = q.submitted
       /\ raised' = q.result.raised
       /\ prompt_id' = q.result.value
       /\ cpc' = IF q.result.raised = "none" THEN "returned" ELSE "raised"
  /\ UNCHANGED <<sshVars, monVars, widVars, flatVars, comfyInputs,
                 image_filename, original_workflow_data,
                 workflow_at_load, original_workflow, modified_workflow, changes_found,
                 ui_workflow, comfy_exit>>

\* main: run_workflow returned, or except Exception caught what it raised
MainExit ==
  /\ mode = "latest"
  /\ cpc \in {"returned", "raised"}
  /\ comfy_exit' = MainExitStatus(raised)
  /\ cpc' = "exit"
  /\ UNCHANGED <<sshVars, monVars, widVars, flatVars, comfyInputs,
                 image_filename, original_workflow_data,
                 workflow_at_load, original_workflow, modified_workflow, changes_found,
                 ui_workflow, queue_answer, submitted, prompt_id, raised, steps>>

ComfyNext ==
  \/ ComfyMain \/ ComfyConnect \/ UploadImage \/ GetLatest \/ ReadFile
  \/ Modify \/ Audit \/ Save \/ QueuePrompt \/ MainExit

SpecComfy == ComfyInit /\ [][ComfyNext]_vars

\* ---------------------------------------------------------------- claims
FailureKinds == {"nonzero", "TimeoutExpired", "FileNotFoundError", "Exception"}

NotReadyWords == {"Connection refused", "No route to host"}
AuthWords == {"Permission denied", "publickey"}
TimeoutWords == {"timeout", "timed out", "banner exchange"}
Mentions(s, W) == \E i \in 1..Len(s) : s[i] \in W

NotReadyString ==
  <<"STATUS: ", "SSH_NOT_READY", BSN, "DETAILS: ", "SSH service not available">>
AuthString ==
  <<"STATUS: ", "SSH_AUTH_ERROR", BSN, "DETAILS: ", "SSH key not authorized">>
TimeoutString ==
  <<"STATUS: ", "SSH_NOT_READY", BSN, "DETAILS: ", "Connection timeout">>
GenericPrefix == <<"STATUS: ", "SSH_ERROR", BSN, "DETAILS: ">>

\* C3: after a nonzero ssh exit the returned string is the one of the first
\* rule that matches stderr regardless of letter case, in the order not-ready,
\* auth failure, timeout, generic error (which carries stderr itself); the
\* four strings differ pairwise and each begins with 'STATUS: '.
C3_FailureCategory ==
  (sshPhase # "idle" /\ sshOutcome.kind = "nonzero") =>
    LET e == sshOutcome.text
        r1 == Mentions(e, NotReadyWords)
        r2 == Mentions(e, AuthWords)
        r3 == Mentions(e, TimeoutWords)
    IN /\ raw_output # <<>> /\ raw_output[1] = "STATUS: "
       /\ r1 => raw_output = NotReadyString
       /\ (~r1 /\ r2) => raw_output = AuthString
       /\ (~r1 /\ ~r2 /\ r3) => raw_output = TimeoutString
       /\ (~r1 /\ ~r2 /\ ~r3) => raw_output = GenericPrefix \o e
       /\ Cardinality({NotReadyString, AuthString, TimeoutString, GenericPrefix \o e}) = 4

\* C3 witness: stderr names an auth failure (capitalised, as ssh prints it)
\* and a timeout; the earlier rule wins
C3_Witness ==
  /\ sshPhase = "ran" /\ sshOutcome.kind = "nonzero"
  /\ sshOutcome.text = <<"timed out", NL, "Permission denied">>
  /\ raw_output = AuthString

\* the text that follows the first 'DETAILS: ' of a string
RECURSIVE AfterDetails(_)
AfterDetails(s) ==
  IF s = <<>> THEN <<>>
  ELSE IF Head(s) = "DETAILS: " THEN Tail(s) ELSE AfterDetails(Tail(s))

\* C4 (as claimed): for every string returned on an SSH failure with a
\* DETAILS part, parse_status_output yields a bare SSH_* token as status and
\* the non-empty text after 'DETAILS: ' as details.
C4_FailureParsesToBareToken ==
  (sshPhase = "parsed" /\ sshOutcome.kind \in FailureKinds) =>
    /\ status_data.status \in {<<"SSH_NOT_READY">>, <<"SSH_AUTH_ERROR">>, <<"SSH_ERROR">>}
    /\ status_data.status[1] \in status_emoji
    /\ status_data.details # <<>>
    /\ status_data.details = AfterDetails(raw_output)

Returned == pc \in {"returned", "exit"}
PollParsed(st) == lastPoll.kind = "parsed" /\ lastPoll.status = st

\* C1: monitor returns True exactly when its last poll parsed to the status
\* READY; a poll that parsed to ERROR makes it return False; False is returned
\* only after such a poll or with the wait budget used up; and once a poll
\* parsed to READY or ERROR the loop is left (no further poll).
C1_MonitorResult ==
  /\ (ret = "True") <=> PollParsed(<<"READY">>)
  /\ PollParsed(<<"ERROR">>) => ret = "False"
  /\ ret = "False" => (PollParsed(<<"ERROR">>) \/ elapsed >= max_wait_time)
  /\ (PollParsed(<<"READY">>) \/ PollParsed(<<"ERROR">>)) => Returned

\* C1 witness: READY seen on a later poll, after a poll that did not end the loop
C1_Witness ==
  pc = "returned" /\ ret = "True" /\ polls >= 2 /\ PollParsed(<<"READY">>)

\* a poll that ended in one of the outcomes the claim lists as not final
NonFinalPoll(p) ==
  \/ p.kind \in {"no_instance", "no_ssh", "no_status"}
  \/ p.kind = "parsed" /\ p.status \notin {<<"READY">>, <<"ERROR">>}
  \/ p.kind \in {"no_status", "parsed"} /\ p.ssh \in FailureKinds \cup {"none"}

\* C2 (as claimed): every poll that ends in instance-not-found, not-running,
\* output without STATUS:, another parsed status or any SSH failure is followed
\* by one sleep of poll_interval and, with budget left, by another poll; no SSH
\* failure ends the loop.
C2_NonFinalPollSleeps ==
  [][ /\ (pc = "poll" /\ pc' # "poll" /\ NonFinalPoll(lastPoll')) => pc' = "sleep"
      /\ pc = "sleep" =>
           (pc' = "loop" /\ sleep_arg' = poll_interval
              /\ elapsed' = elapsed + poll_interval)
      /\ (pc = "loop" /\ elapsed < max_wait_time) => pc' = "poll"
    ]_vars

\* C5: the exit status is 0 exactly when monitor returned True, and 1 when it
\* returned False, when the constructor or monitor raised, and when the
\* argument count is not 2 (script name and instance ID); nothing else is
\* produced, and none before main ends.
C5_ExitCode ==
  /\ pc = "exit" =>
       /\ exit_code \in {0, 1}
       /\ (exit_code = 0) <=> (ret = "True")
       /\ ret \in {"False", "raise"} => exit_code = 1
       /\ argc # 2 => exit_code = 1
  /\ pc # "exit" => exit_code = -1

\* C5 witness: an exception left monitor during a poll and main exited with 1
C5_Witness ==
  pc = "exit" /\ ret = "raise" /\ polls >= 1 /\ exit_code = 1 /\ argc = 2

\* the widget inputs as the claims describe them
DeclaredWidgetInputs ==
  SelectSeq(inputs_config, LAMBDA d : d.widget # <<>> /\ d.link = <<>>)

\* C6: with no more values than widget inputs the mapping is by index: the
\* i-th widget input's name maps to the i-th value and the widget inputs
\* beyond the values are absent.
C6_MapByIndex ==
  (widPhase = "mapped" /\ Len(widget_values) <= Len(DeclaredWidgetInputs)) =>
    /\ \A i \in 1..Len(widget_values) :
         /\ DeclaredWidgetInputs[i].name \in DOMAIN api_inputs
         /\ api_inputs[DeclaredWidgetInputs[i].name] = widget_values[i]
    /\ DOMAIN api_inputs = {DeclaredWidgetInputs[i].name : i \in 1..Len(widget_values)}

\* C6 witness: one value for two widget inputs; the second input is absent
C6_Witness ==
  /\ widPhase = "mapped"
  /\ Len(widget_values) = 1 /\ Len(inputs_config) = 2
  /\ Len(DeclaredWidgetInputs) = 2
  /\ DOMAIN api_inputs = {inputs_config[1].name}
  /\ api_inputs[inputs_config[1].name] = widget_values[1]

Flagged(name, v) ==
  \/ name = "steps" /\ v \in {StrVal("randomize"), StrVal("fixed")}
  \/ name = "start_at_step" /\ v \in {StrVal("beta"), StrVal("euler"), StrVal("simple")}
  \/ name = "sampler_name" /\ v.kind # "str"
  \/ name = "return_with_leftover_noise" /\ v.kind # "str" /\ v.n > 1

MoreValuesThanInputs ==
  widPhase = "mapped" /\ Len(widget_values) > Len(DeclaredWidgetInputs)

\* C7 (as claimed): with more values than widget inputs no input is assigned
\* a value that is flagged for its name.
C7_NeverAssignsFlagged ==
  MoreValuesThanInputs =>
    \A name \in DOMAIN api_inputs : ~Flagged(name, api_inputs[name])

\* C7 (amended): with more values than widget inputs an input is assigned a
\* value flagged for its name only if that value directly follows, in
\* widget_values, a value flagged for the same name (the skip is done once and
\* the next value is not examined) or is the last value (nothing is left to
\* skip to).
C7_FlaggedOnlyAfterSkip ==
  MoreValuesThanInputs =>
    \A name \in DOMAIN api_inputs :
      Flagged(name, api_inputs[name]) =>
        \E j \in 1..Len(widget_values) :
          /\ widget_values[j] = api_inputs[name]
          /\ \/ j = Len(widget_values)
             \/ j > 1 /\ Flagged(name, widget_values[j - 1])

\* C7 witness: 'randomize' is skipped for steps, which receives the number
\* that follows it
C7_Witness ==
  /\ MoreValuesThanInputs
  /\ widget_values = <<IntVal(1), StrVal("randomize"), IntVal(20)>>
  /\ Len(DeclaredWidgetInputs) = 2
  /\ DeclaredWidgetInputs[2].name = "steps"
  /\ api_inputs["steps"] = IntVal(20)

\* reading a dict with a default, as the consumers of the cleaned mapping do
OGetOr(d, key, default) == IF OHas(d, key) THEN OGet(d, key) ELSE default

AnalyzedNodes == ListOr(workflow_data.nodes)
CleanedNodes == flat_result.cleaned[1].nodes

\* the widget names declared on a node's inputs
DeclaredWidgetNames(node) ==
  {ListOr(node.inputs)[j].widget[1].name :
     j \in {j \in 1..Len(ListOr(node.inputs)) : ListOr(node.inputs)[j].widget # None}}

\* C8: a node is in the cleaned mapping, under str(id), exactly when it has a
\* non-empty widgets_values list or an input with a widget; an entry's
\* widgets_values is the node's list, and its input_widgets has one entry per
\* distinct widget name of the node; the mapping has no other keys.
C8_CleanIncludesConfigurable ==
  flatPhase = "done" =>
    /\ \A i \in 1..Len(AnalyzedNodes) :
         LET node == AnalyzedNodes[i]
             key == StrOfInt(node.id)
         IN /\ OHas(CleanedNodes, key) <=>
                 (ListOr(node.widgets_values) # <<>> \/ DeclaredWidgetNames(node) # {})
            /\ OHas(CleanedNodes, key) =>
                 LET conf == OGet(CleanedNodes, key).configurable
                     iw == OGetOr(conf, "input_widgets", <<>>)
                 IN /\ OGetOr(conf, "widgets_values", <<>>) = ListOr(node.widgets_values)
                    /\ OKeys(iw) = DeclaredWidgetNames(node)
                    /\ Len(iw) = Cardinality(DeclaredWidgetNames(node))
    /\ OKeys(CleanedNodes) \subseteq
         {StrOfInt(AnalyzedNodes[i].id) : i \in 1..Len(AnalyzedNodes)}

\* C8 witness: of two nodes, one without anything configurable is left out and
\* one that declares the widget name w twice is kept with two widget names
C8_Witness ==
  /\ flatPhase = "done"
  /\ Len(AnalyzedNodes) = 2
  /\ Len(CleanedNodes) = 1
  /\ CleanedNodes[1].k = <<"1", "2">>
  /\ Len(ListOr(AnalyzedNodes[2].inputs)) = 4
  /\ Len(OGet(CleanedNodes[1].v.configurable, "input_widgets")) = 2
  /\ OGet(CleanedNodes[1].v.configurable, "widgets_values") = <<"v2">>

\* every (section, instance) pair of configurable_parameters
FormattedInstances ==
  LET cp == flat_result.formatted[1].configurable_parameters IN
  {<<a, b>> \in (1..Len(cp)) \X (1..MaxNodes + 1) : b <= Len(cp[a].v)}

\* C9: whenever format_for_easy_editing returns, every node of the cleaned
\* mapping is found exactly once in configurable_parameters, in the section of
\* its own type, with its integer id as node_id and its configurable map as
\* parameters; there are no other instances.
C9_FormatGroupsByType ==
  (flatPhase = "done" /\ flat_result.formatted # None) =>
    LET cp == flat_result.formatted[1].configurable_parameters IN
    /\ \A i \in 1..Len(CleanedNodes) :
         LET nd == CleanedNodes[i].v
             hits == {p \in FormattedInstances :
                        IntToStr(cp[p[1]].v[p[2]].v.node_id) = CleanedNodes[i].k}
         IN /\ Cardinality(hits) = 1
            /\ \A p \in hits :
                 /\ cp[p[1]].k = nd.type
                 /\ cp[p[1]].v[p[2]].v.parameters = nd.configurable
    /\ Cardinality(FormattedInstances) = Len(CleanedNodes)

\* C9 witness: two nodes of one type share that type's section
C9_Witness ==
  /\ flatPhase = "done" /\ output_format = "detailed"
  /\ flat_result.formatted # None
  /\ Len(CleanedNodes) = 2
  /\ CleanedNodes[1].v.type = Some(<<"A">>) /\ CleanedNodes[2].v.type = Some(<<"A">>)
  /\ Len(flat_result.formatted[1].configurable_parameters) = 1
  /\ Len(flat_result.formatted[1].configurable_parameters[1].v) = 2

\* C10 (as claimed): whatever keys the node records lack, analyze_workflow
\* completes without raising in every output format.
C10_NeverRaises ==
  flatPhase = "done" => ~flat_result.raised

FilledCandidates ==
  {<<i, j>> \in (1..Len(CleanedNodes)) \X (1..4) :
     LET conf == CleanedNodes[i].v.configurable IN
     /\ OHas(conf, "widgets_values") /\ OHas(conf, "input_widgets")
     /\ j <= Len(OGet(conf, "input_widgets"))}

\* C18 (as claimed): in the cleaned mapping every input widget of a node that
\* has widgets_values carries a current_value other than null.
C18_CurrentValueFilled ==
  flatPhase = "done" =>
    \A p \in FilledCandidates :
      OGet(CleanedNodes[p[1]].v.configurable, "input_widgets")[p[2]].v.current_value # None

\* C19: get_ssh_info returns connection details only for an instance whose
\* actual_status is 'running' and whose ssh_host and ssh_port are present; the
\* details then hold the API's ssh_host and the API's ssh_port plus one; in
\* every other case the result is None.
C19_SshInfoPortPlusOne ==
  sshPhase # "start" =>
    /\ ssh_info = <<>> \/ Len(ssh_info) = 1
    /\ ssh_info # <<>> =>
         /\ instance_data # <<>>
         /\ instance_data[1].actual_status = <<"running">>
         /\ instance_data[1].ssh_host # <<>>
         /\ instance_data[1].ssh_port # <<>>
         /\ ssh_info[1].host = instance_data[1].ssh_host[1]
         /\ ssh_info[1].port = instance_data[1].ssh_port[1] + 1
         /\ ssh_info[1].status = "running"

\* C19 witness: the API reports port 22000 for a running instance and the
\* details carry port 22001
C19_Witness ==
  /\ sshPhase = "idle"
  /\ instance_data = <<[actual_status |-> <<"running">>, ssh_host |-> <<"ssh5.vast.ai">>,
                        ssh_port |-> <<22000>>]>>
  /\ ssh_info = <<[host |-> "ssh5.vast.ai", port |-> 22001, status |-> "running"]>>

\* C20 (as claimed): whenever execute_remote_script has returned, the
\* temporary script file it created is gone.
C20_TmpFileRemoved ==
  sshPhase \in {"ran", "parsed"} => ~tmp_left

\* the workflow as it was loaded and as modify_workflow returned it
LoadedWorkflow == workflow_at_load[1]
ModifiedWorkflow == modified_workflow[1]

\* C12: after modify_workflow the workflow has the node ids it was loaded
\* with; inputs.text of the node prompt_node_id is prompt_text and
\* inputs.image of the node image_node_id is image_filename where those nodes
\* exist; every other input of every node and every class_type is as loaded;
\* an absent target node is not added.
C12_ModifyFrame ==
  modified_workflow # None =>
    /\ DOMAIN ModifiedWorkflow = DOMAIN LoadedWorkflow
    /\ \A id \in DOMAIN LoadedWorkflow :
         LET old == LoadedWorkflow[id]
             new == ModifiedWorkflow[id]
         IN /\ new.class_type = old.class_type
            /\ DOMAIN new.inputs =
                 (DOMAIN old.inputs)
                   \cup (IF id = prompt_node_id THEN {"text"} ELSE {})
                   \cup (IF id = image_node_id THEN {"image"} ELSE {})
            /\ \A key \in DOMAIN new.inputs :
                 new.inputs[key] =
                   IF id = prompt_node_id /\ key = "text" THEN prompt_text
                   ELSE IF id = image_node_id /\ key = "image" THEN image_filename[1]
                   ELSE old.inputs[key]

\* C12 witness: the prompt node 7 is absent and is not added; node 6, named as
\* image node, receives the image and keeps its text and its clip link
C12_Witness ==
  /\ modified_workflow # None
  /\ prompt_node_id = <<"7">> /\ image_node_id = <<"6">>
  /\ DOMAIN ModifiedWorkflow = {<<"6">>}
  /\ DOMAIN ModifiedWorkflow[<<"6">>].inputs = {"clip", "text", "image"}
  /\ ModifiedWorkflow[<<"6">>].inputs["image"] = UploadedName
  /\ ModifiedWorkflow[<<"6">>].inputs["text"] = StrVal("old")

IsPrefix(a, b) == Len(a) <= Len(b) /\ a = SubSeq(b, 1, Len(a))

\* the steps run in the order of the function, none twice, none skipped
StepsInOrder == mode # "none" => IsPrefix(steps, StepOrder(mode))

\* C13 (as claimed): the steps run in order; the prompt is submitted only
\* with every earlier step done; after any exception no prompt has been
\* submitted, and main exits with status 1.
C13_NoPromptAfterRaise ==
  /\ StepsInOrder
  /\ submitted => steps = StepOrder(mode)
  /\ raised # "none" => ~submitted
  /\ (cpc = "exit" /\ raised # "none") => comfy_exit = 1

\* C13 (amended): the steps run in order; the prompt is submitted only with
\* every earlier step done; after an exception in a step before queue_prompt
\* (or before the first step) no prompt has been submitted, while an
\* exception from queue_prompt itself can follow the POST; after any
\* exception main exits with status 1, and status 0 is given only when no
\* exception was raised and the prompt was submitted.
C13_SubmitOnlyAfterEarlierSteps ==
  /\ StepsInOrder
  /\ submitted => steps = StepOrder(mode)
  /\ (raised # "none" /\ submitted) =>
       /\ steps[Len(steps)] = "queue"
       /\ queue_answer.ssh \in {"ok", "lost_after_post"}
  /\ (cpc = "exit" /\ raised # "none") => comfy_exit = 1
  /\ comfy_exit = 0 => (raised = "none" /\ submitted)

\* C13 witness: get_latest_workflow raised after the upload; no prompt was
\* submitted and main exited with status 1
C13_Witness ==
  /\ mode = "latest" /\ cpc = "exit"
  /\ steps = <<"upload", "obtain">>
  /\ raised = "RuntimeError"
  /\ ~submitted
  /\ comfy_exit = 1

\* modify_workflow replaced a loaded value of the given input by another one
ChangedByModify(id, key) ==
  /\ id \in DOMAIN LoadedWorkflow
  /\ key \in DOMAIN LoadedWorkflow[id].inputs
  /\ LoadedWorkflow[id].inputs[key] # ModifiedWorkflow[id].inputs[key]

\* C14 (as claimed): when modify_workflow changed the text of the prompt node
\* or the image of the image node, the audit finds a change.
C14_AuditReportsChange ==
  changes_found # None =>
    ((ChangedByModify(prompt_node_id, "text") \/ ChangedByModify(image_node_id, "image"))
       => changes_found = Some(TRUE))

\* the nodes of the saved UI workflow that stand for the API node id and
\* have a first widget value
UiNodesFor(id) ==
  {j \in 1..Len(ui_workflow[1].nodes) :
     /\ IntToStr(ui_workflow[1].nodes[j].id) = id
     /\ ListOr(ui_workflow[1].nodes[j].widgets_values) # <<>>}

\* C15 (as claimed): in the saved UI workflow the node that received
\* prompt_text (image_filename) in the queued API workflow has it as its first
\* widget value.
C15_UiCarriesModifiedValues ==
  (ui_workflow # None /\ ui_workflow[1].kind = "ui") =>
    /\ prompt_node_id \in DOMAIN ModifiedWorkflow =>
         \A j \in UiNodesFor(prompt_node_id) :
           ui_workflow[1].nodes[j].widgets_values[1][1] = prompt_text
    /\ (image_node_id \in DOMAIN ModifiedWorkflow /\ image_node_id # prompt_node_id) =>
         \A j \in UiNodesFor(image_node_id) :
           ui_workflow[1].nodes[j].widgets_values[1][1] = image_filename[1]

QueueDone == queue_answer # NoAnswer

\* the id is the non-empty one the response holds
ReturnedResponseId ==
  /\ prompt_id # None /\ prompt_id[1] # ""
  /\ queue_answer.body = "object" /\ prompt_id = queue_answer.prompt_id
  /\ raised = "none"

\* success is reported only with an id
SuccessOnlyWithId ==
  (cpc = "returned" \/ comfy_exit = 0) => (prompt_id # None /\ prompt_id[1] # "")

\* C16 (as claimed): queue_prompt returns the non-empty prompt id of the
\* response or raises RuntimeError; success is reported only with an id.
C16_IdOrRuntimeError ==
  /\ QueueDone => (ReturnedResponseId \/ (prompt_id = None /\ raised = "RuntimeError"))
  /\ SuccessOnlyWithId

\* C16 (amended): queue_prompt returns the non-empty prompt id of the
\* response or raises: RuntimeError for a nonzero curl exit code and for a
\* JSON object without a (non-empty) prompt_id, the decoding error for a
\* response that is no JSON, AttributeError for JSON that is no object, and
\* the SSH error of a remote command that could not be run; an empty or
\* missing id is never returned and success is reported only with an id.
C16_IdOrException ==
  /\ QueueDone =>
       \/ ReturnedResponseId
       \/ /\ prompt_id = None
          /\ raised \in {"RuntimeError", "JSONDecodeError", "AttributeError", "SSHException"}
          /\ raised = "RuntimeError" <=>
               /\ queue_answer.ssh = "ok"
               /\ \/ queue_answer.exit_code # 0
                  \/ /\ queue_answer.body = "object"
                     /\ (queue_answer.prompt_id = None \/ queue_answer.prompt_id = Some(""))
  /\ SuccessOnlyWithId

\* C16 witness: the server answered with an empty prompt_id; RuntimeError was
\* raised and main exited with status 1
C16_Witness ==
  /\ mode = "latest" /\ cpc = "exit"
  /\ queue_answer.prompt_id = Some("")
  /\ prompt_id = None /\ raised = "RuntimeError"
  /\ comfy_exit = 1

\* C17 (as claimed): from a non-empty history in execution order the
\* workflow of the last executed prompt is taken; an empty history raises
\* RuntimeError.
C17_LatestIsMostRecent ==
  (mode = "latest" /\ Len(steps) >= 2 /\ history_answer.exit_code = 0
     /\ history_answer.json) =>
    LET history == history_answer.history IN
    IF history = <<>> THEN raised = "RuntimeError" /\ workflow_at_load = None
    ELSE workflow_at_load = Some(history[Len(history)].v)

\* the most polls the budget allows: ceil(max_wait_minutes*60 / poll_interval)
MostPolls == (max_wait_minutes * 60 + poll_interval - 1) \div poll_interval

\* C21: with every call returning and every non-final iteration sleeping
\* poll_interval > 0, a started monitor is eventually left (it returns, or an
\* exception leaves it); it makes at most ceil(max_wait_minutes*60 /
\* poll_interval) polls; with max_wait_minutes = 0 it makes no poll and
\* returns False.
C21_MonitorTerminates ==
  /\ [](pc # "off" => (poll_interval > 0 /\ polls <= MostPolls))
  /\ []((max_wait_minutes = 0 /\ pc # "off") =>
          (polls = 0 /\ (ret # "none" /\ api_key => ret = "False")))
  /\ (pc = "loop") ~> Returned

\* C21 witness: with a budget of 60 s and polls every 10 s the sixth poll was
\* the last one allowed and monitor returned False
C21_Witness ==
  /\ pc = "returned" /\ ret = "False"
  /\ max_wait_minutes = 1 /\ poll_interval = 10
  /\ polls = 6 /\ polls = MostPolls
  /\ elapsed >= 60

====
